---- MODULE Spec2Model ----
(***************************************************************************)
(* A model of the virtual filesystem cache layer of onedrive-fuse:         *)
(*   src/src/vfs/dir.rs   DirPool (directory snapshot cache)               *)
(*   src/src/vfs/file.rs  FilePool, FileStreamState, download_thread,      *)
(*                        DiskCache, FileCache                             *)
(*                                                                         *)
(* Granularity: a task runs atomically from one suspension to the next     *)
(* (the code between two suspension points is synchronous).  A request, a  *)
(* sleep, a channel or watch receive suspends the task; the file I/O done  *)
(* under a FileCache's state lock stays inside the step that holds the     *)
(* lock, and the lock is therefore free between any two steps.             *)
(***************************************************************************)
EXTENDS Integers, Sequences, FiniteSets, TLC

(***************************************************************************)
(* Bounds of the model.                                                    *)
(***************************************************************************)
\* DirPool
MaxDirTag == 2        \* remote directory versions 1..MaxDirTag
MaxTime == 2          \* the clock runs 0..MaxTime
CacheTtl == 1         \* config.cache_ttl   (dir.rs:31)
LruCacheSize == 1     \* config.lru_cache_size (dir.rs:29)

\* Streaming reads and the download producer
MaxStreamSize == 3      \* file sizes 0..MaxStreamSize
MaxChunk == 2           \* the remote delivers chunks of 1..MaxChunk bytes
MaxRetry == 1           \* config.download.max_retry (file.rs:40)
StreamBufferChunks == 1 \* config.download.stream_buffer_chunks (file.rs:43)

\* FilePool, DiskCache, FileCache
MaxFileTag == 2         \* remote c_tags of an item 1..MaxFileTag
MaxCachedFileSize == 2  \* config.disk_cache.max_cached_file_size (file.rs:51)
MaxTotalSize == 3       \* config.disk_cache.max_total_size (file.rs:53)
MaxFiles == 1           \* config.disk_cache.max_files (file.rs:52)
UploadMaxSize == 3      \* config.upload.max_size (file.rs:58)

VARIABLES
    \* ---- DirPool (dir.rs) ----
    now,          \* Instant::now()
    remoteDir,    \* the remote's directory per inode: [c_tag, entries]
    dirLru,       \* DirPool.lru_cache: Seq of [key, snap, at], least recent first
    dirHandles,   \* DirPool.opened_handles: slot -> snapshot (c_tag = 0: free)
    dirOp,        \* the DirPool::open calls in flight, per task
    dirLast,      \* the last completed DirPool::open (observation)
    dirWin,       \* WatchedInode: start of the current ttl window, fetches issued in it
    \* ---- a Streaming handle and its download_thread (file.rs) ----
    src,          \* the bytes of the remote file (file_size = Len(src))
    dl,           \* download_thread: [pc, pos, tries]
    chan,         \* the mpsc channel of chunks, oldest first
    rxOpen,       \* the receiver (the handle's FileStreamState) is alive
    current_pos,  \* FileStreamState.current_pos
    buffer,       \* FileStreamState.buffer (<<>>: None)
    rd,           \* the FileStreamState::read in flight: [pc, offset, size, ret_buf]
    sLast,        \* the step just taken, when it completed a read (observation)
    sHist,        \* the bytes returned so far, and what happened (observation)
    \* ---- FilePool with its DiskCache and FileCaches (file.rs) ----
    remote,       \* the remote drive: item -> [size, c_tag, content]
    lru,          \* DiskCache.cache: Seq of [key (item), fc], least recent first
    fc,           \* the FileCache objects, by identity
    total_size,   \* DiskCache.total_size
    hs,           \* FilePool.handles: slot -> FileCache (0: free, -1: Streaming)
    ops,          \* the calls of FilePool::open/read/write in flight, per caller
    up,           \* the upload_thread tasks, by the mtime token of their write
    nextToken,    \* Instant::now() of the next write (tokens grow)
    sync,         \* DiskCache::sync_items in flight: its `outdated` list
    lastOp,       \* the call that the step just taken completed (observation)
    everDropped,  \* some FileCache was dropped (observation)
    events,       \* the UpdateFile events sent on event_tx, in order
    enable,       \* config.disk_cache.enable: FilePool has a DiskCache
    tagCap        \* the remote gives an item the c_tags 1..tagCap

dirVars == <<now, remoteDir, dirLru, dirHandles, dirOp, dirLast, dirWin>>

streamVars == <<src, dl, chan, rxOpen, current_pos, buffer, rd, sLast, sHist>>

fileVars == <<remote, lru, fc, total_size, hs, ops, up, nextToken, sync,
              lastOp, everDropped>>

\* The configuration and the extent of the remote: no step changes them.
cfgVars == <<enable, tagCap>>

vars == <<dirVars, streamVars, fileVars, cfgVars, events>>

nonDirVars == <<streamVars, fileVars, cfgVars, events>>
nonStreamVars == <<dirVars, fileVars, cfgVars, events>>
nonFileVars == <<dirVars, streamVars, cfgVars>>

(***************************************************************************)
(* lru_cache::LruCache, as the code uses it.  An LRU is a sequence of      *)
(* records with a field `key`, least recently used first.                  *)
(***************************************************************************)
SeqRemoveAt(s, i) == SubSeq(s, 1, i - 1) \o SubSeq(s, i + 1, Len(s))

LruIndex(l, k) ==
    IF \E i \in 1..Len(l) : l[i].key = k
    THEN CHOOSE i \in 1..Len(l) : l[i].key = k
    ELSE 0

LruHas(l, k) == LruIndex(l, k) # 0

LruEntry(l, k) == l[LruIndex(l, k)]

\* get_mut: a hit moves the entry to the most-recently-used end.
LruTouch(l, k) ==
    IF LruHas(l, k)
    THEN Append(SeqRemoveAt(l, LruIndex(l, k)), LruEntry(l, k))
    ELSE l

\* remove(key)
LruRemove(l, k) ==
    IF LruHas(l, k) THEN SeqRemoveAt(l, LruIndex(l, k)) ELSE l

\* insert: replaces an entry of the same key, makes it most recent, and drops
\* the least recently used entry when the capacity is exceeded.
LruInsert(l, e, cap) ==
    LET s == Append(LruRemove(l, e.key), e)
    IN  IF Len(s) > cap THEN Tail(s) ELSE s

(***************************************************************************)
(* DirPool                                                                 *)
(***************************************************************************)
Inodes == {1, 2}        \* the directories of the model
DirTasks == {1, 2}      \* the tasks that call DirPool::open, concurrently
WatchedInode == 1       \* the inode whose fetches dirWin counts
DirSlots == {1}         \* the slots of opened_handles the model uses

\* The remote directory of inode i in its v-th version: the c_tag names the
\* version, and the children (in server order) differ from version to version.
RemoteDirVersion(i, v) ==
    [c_tag |-> 10 * i + v,
     entries |-> CASE v % 3 = 1 -> <<"a">>
                   [] v % 3 = 2 -> <<"b", "a">>
                   [] OTHER     -> <<>>]

NoSnap == [c_tag |-> 0, entries |-> <<>>]
IsSnap(s) == s.c_tag # 0

IdleDirOp == [pc |-> "idle", ino |-> 0, prev |-> NoSnap, cond |-> 0,
              resp |-> "none", item |-> NoSnap, at |-> 0, fresh |-> FALSE]

\* dirLast describes the step just taken when that step issued the fetch of
\* an open, completed an open or was a lookup; every other step resets it.
NoDirLast == [kind |-> "none", ino |-> 0, fh |-> 0, prev |-> NoSnap,
              cond |-> 0, fresh |-> FALSE, name |-> "", res |-> "none",
              ttl |-> 0]

\* Mutant of CacheHit: the window is one tick short.
CacheHitShort(at) == now - at < CacheTtl - 1

\* The freshness test of DirPool::open: last_checked.elapsed() < cache_ttl.
CacheHit(at) == now - at < CacheTtl

\* Slab::insert: some vacant slot (the key's value is the slab's business).
FreeDirSlot == CHOOSE h \in DirSlots : ~IsSnap(dirHandles[h])
HasFreeDirSlot == \E h \in DirSlots : ~IsSnap(dirHandles[h])

\* Bookkeeping of "fetches issued in one cache_ttl window" for an inode: a
\* window opens with the first fetch issued outside the previous window.
NoWindow == [start |-> -1, n |-> 0]
NoteFetch(i) ==
    IF i # WatchedInode THEN dirWin
    ELSE IF dirWin.start < 0 \/ now - dirWin.start >= CacheTtl
         THEN [start |-> now, n |-> 1]
         ELSE [dirWin EXCEPT !.n = IF @ >= 2 THEN 2 ELSE @ + 1]

DirInit ==
    /\ now = 0
    /\ remoteDir = [i \in Inodes |-> RemoteDirVersion(i, 1)]
    /\ dirLru = <<>>
    /\ dirHandles = [h \in DirSlots |-> NoSnap]
    /\ dirOp = [t \in DirTasks |-> IdleDirOp]
    /\ dirLast = NoDirLast
    /\ dirWin = NoWindow

\* Time passes (a window that has run out is forgotten).
Tick ==
    /\ now < MaxTime
    /\ now' = now + 1
    /\ dirLast' = NoDirLast
    /\ dirWin' = IF dirWin.start >= 0 /\ now + 1 - dirWin.start >= CacheTtl
                  THEN NoWindow ELSE dirWin
    /\ UNCHANGED <<remoteDir, dirLru, dirHandles, dirOp>>
    /\ UNCHANGED nonDirVars

\* Somebody changes the directory at the remote: new content, new c_tag.
RemoteDirChange(i) ==
    /\ remoteDir[i].c_tag < 10 * i + MaxDirTag
    /\ remoteDir' = [remoteDir EXCEPT
                       ![i] = RemoteDirVersion(i, remoteDir[i].c_tag - 10 * i + 1)]
    /\ dirLast' = NoDirLast
    /\ UNCHANGED <<now, dirLru, dirHandles, dirOp, dirWin>>
    /\ UNCHANGED nonDirVars

\* DirPool::open up to its first await (dir.rs:79-122): a fresh snapshot in the
\* LRU is returned at once; otherwise the fetch is issued, conditional on the
\* c_tag of the stale snapshot if there is one.
DirOpenStart(t, i) ==
    /\ dirOp[t].pc = "idle"
    /\ LET has   == LruHas(dirLru, i)
           ent   == LruEntry(dirLru, i)
           \* observation: is there a snapshot with now - fetched_at < cache_ttl
           fresh == has /\ now - ent.at < CacheTtl
       IN  /\ dirLru' = LruTouch(dirLru, i)
           /\ IF has /\ CacheHit(ent.at)
              THEN /\ HasFreeDirSlot
                   /\ dirHandles' = [dirHandles EXCEPT ![FreeDirSlot] = ent.snap]
                   /\ dirLast' = [NoDirLast EXCEPT
                                    !.kind = "hit", !.ino = i, !.fh = FreeDirSlot,
                                    !.prev = ent.snap, !.fresh = fresh]
                   /\ UNCHANGED <<dirOp, dirWin>>
              ELSE /\ dirOp' = [dirOp EXCEPT ![t] =
                                  [IdleDirOp EXCEPT
                                     !.pc = "fetch", !.ino = i,
                                     !.prev = IF has THEN ent.snap ELSE NoSnap,
                                     !.cond = IF has THEN ent.snap.c_tag ELSE 0,
                                     !.fresh = fresh]]
                   /\ dirWin' = NoteFetch(i)
                   /\ dirLast' = [NoDirLast EXCEPT
                                    !.kind = "fetch", !.ino = i,
                                    !.prev = IF has THEN ent.snap ELSE NoSnap,
                                    !.cond = IF has THEN ent.snap.c_tag ELSE 0,
                                    !.fresh = fresh]
                   /\ UNCHANGED dirHandles
    /\ UNCHANGED <<now, remoteDir>>
    /\ UNCHANGED nonDirVars

\* The remote answers get_item_with_option: "not modified" when the request
\* carries if-none-match with the current c_tag, the item otherwise; or an error.
DirRemoteRespond(t) ==
    /\ dirOp[t].pc = "fetch"
    /\ \E ok \in BOOLEAN :
         LET op == dirOp[t]
             r  == IF ~ok THEN [op EXCEPT !.pc = "resp", !.resp = "err"]
                   ELSE IF op.cond # 0 /\ op.cond = remoteDir[op.ino].c_tag
                        THEN [op EXCEPT !.pc = "resp", !.resp = "notmod"]
                        ELSE [op EXCEPT !.pc = "resp", !.resp = "item",
                                        !.item = remoteDir[op.ino]]
         IN  dirOp' = [dirOp EXCEPT ![t] = r]
    /\ dirLast' = NoDirLast
    /\ UNCHANGED <<now, remoteDir, dirLru, dirHandles, dirWin>>
    /\ UNCHANGED nonDirVars

\* The part of DirPool::open after the fetch that stores a snapshot and
\* allocates the handle (dir.rs:131-135 and 165-169).
DirStore(t, snap, at, kind) ==
    /\ dirLru' = LruInsert(dirLru, [key |-> dirOp[t].ino, snap |-> snap, at |-> at],
                           LruCacheSize)
    /\ dirHandles' = [dirHandles EXCEPT ![FreeDirSlot] = snap]
    /\ dirLast' = [NoDirLast EXCEPT
                     !.kind = kind, !.ino = dirOp[t].ino, !.fh = FreeDirSlot,
                     !.prev = dirOp[t].prev, !.cond = dirOp[t].cond,
                     !.fresh = dirOp[t].fresh]
    /\ dirOp' = [dirOp EXCEPT ![t] = IdleDirOp]

\* Mutant of NotModifiedAt: the stored fetched_at is kept, not refreshed.
NotModifiedAtKept(t) ==
    IF LruHas(dirLru, dirOp[t].ino) THEN LruEntry(dirLru, dirOp[t].ino).at ELSE now

\* The fetch_time under which the "not modified" branch re-inserts the
\* previous snapshot (dir.rs:123, 134).
NotModifiedAt(t) == now

\* DirPool::open resumes with the response (dir.rs:122-151): an error is
\* returned as it is; "not modified" re-inserts the previous snapshot with the
\* fetch time; an item with children suspends in inode_pool.touch before the
\* new snapshot is stored, an item without children stores it at once.
DirOpenReceive(t) ==
    /\ dirOp[t].pc = "resp"
    /\ HasFreeDirSlot
    /\ CASE dirOp[t].resp = "err" ->
              /\ dirOp' = [dirOp EXCEPT ![t] = IdleDirOp]
              /\ dirLast' = [NoDirLast EXCEPT !.kind = "err", !.ino = dirOp[t].ino,
                                              !.fresh = dirOp[t].fresh]
              /\ UNCHANGED <<dirLru, dirHandles>>
         [] dirOp[t].resp = "notmod" ->
              DirStore(t, dirOp[t].prev, NotModifiedAt(t), "notmod")
         [] dirOp[t].resp = "item" /\ dirOp[t].item.entries = <<>> ->
              DirStore(t, dirOp[t].item, now, "item")
         [] dirOp[t].resp = "item" /\ dirOp[t].item.entries # <<>> ->
              /\ dirOp' = [dirOp EXCEPT ![t].pc = "touch", ![t].at = now]
              /\ dirLast' = NoDirLast
              /\ UNCHANGED <<dirLru, dirHandles>>
    /\ UNCHANGED <<now, remoteDir, dirWin>>
    /\ UNCHANGED nonDirVars

\* DirPool::open after the touches of the children (dir.rs:153-169).
DirOpenInsert(t) ==
    /\ dirOp[t].pc = "touch"
    /\ HasFreeDirSlot
    /\ DirStore(t, dirOp[t].item, dirOp[t].at, "item")
    /\ UNCHANGED <<now, remoteDir, dirWin>>
    /\ UNCHANGED nonDirVars

\* DirPool::free (dir.rs:172-178) of an open handle.
DirFree(h) ==
    /\ IsSnap(dirHandles[h])
    /\ dirHandles' = [dirHandles EXCEPT ![h] = NoSnap]
    /\ dirLast' = NoDirLast
    /\ UNCHANGED <<now, remoteDir, dirLru, dirOp, dirWin>>
    /\ UNCHANGED nonDirVars

\* Duration::checked_sub: the difference, or None (here -1) when it would
\* be negative.
checked_sub(a, b) == IF b <= a THEN a - b ELSE -1

\* DirPool::lookup (dir.rs:196-212): "miss" is the outer None, "absent" the
\* inner None, "found" the entry of that name with the ttl.
DirLookup(i, name) ==
    /\ dirLru' = LruTouch(dirLru, i)
    /\ LET has == LruHas(dirLru, i)
           ent == LruEntry(dirLru, i)
           ttl == IF has THEN checked_sub(CacheTtl, now - ent.at) ELSE -1
           inSnap == \E k \in 1..Len(ent.snap.entries) : ent.snap.entries[k] = name
       IN  dirLast' = [NoDirLast EXCEPT
                         !.kind = "lookup", !.ino = i, !.name = name,
                         !.prev = IF has THEN ent.snap ELSE NoSnap,
                         !.fresh = (has /\ now - ent.at < CacheTtl),
                         !.res = IF ttl < 0 THEN "miss"
                                 ELSE IF inSnap THEN "found" ELSE "absent",
                         !.ttl = IF ttl < 0 \/ ~inSnap THEN 0 ELSE ttl,
                         !.cond = IF has THEN now - ent.at ELSE 0]
    /\ UNCHANGED <<now, remoteDir, dirHandles, dirOp, dirWin>>
    /\ UNCHANGED nonDirVars

DirNames == {"a", "b"}

DirNext ==
    \/ \E i \in Inodes, name \in DirNames : DirLookup(i, name)
    \/ Tick
    \/ \E i \in Inodes : RemoteDirChange(i)
    \/ \E t \in DirTasks, i \in Inodes : DirOpenStart(t, i)
    \/ \E t \in DirTasks : DirRemoteRespond(t)
    \/ \E t \in DirTasks : DirOpenReceive(t)
    \/ \E t \in DirTasks : DirOpenInsert(t)
    \/ \E h \in DirSlots : DirFree(h)

(***************************************************************************)
(* download_thread and FileStreamState (a Streaming handle)                *)
(***************************************************************************)
Min(a, b) == IF a < b THEN a ELSE b
Max(a, b) == IF a < b THEN b ELSE a

\* The remote file of n bytes; every byte differs, so that a lost, repeated
\* or misplaced byte shows.
SourceOf(n) == [i \in 1..n |-> i]

\* The bytes [from, from + n) of a byte sequence (offsets count from 0).
Slice(bytes, from, n) == SubSeq(bytes, from + 1, from + n)

IdleRead == [pc |-> "idle", offset |-> 0, size |-> 0, ret_buf |-> <<>>]
NoSLast == [kind |-> "none", offset |-> 0, size |-> 0, data |-> <<>>,
            pos0 |-> 0, buf0 |-> <<>>, chan0 |-> <<>>, err_pos |-> 0, err_off |-> 0]
NoHist == [got |-> <<>>, eof |-> FALSE, nonseq |-> FALSE, tail |-> FALSE, reads |-> 0]

\* The state of the stream variables in the specifications that do not use them.
StreamQuiet ==
    /\ src = <<>>
    /\ dl = [pc |-> "done", pos |-> 0, tries |-> 0]
    /\ chan = <<>>
    /\ rxOpen = FALSE
    /\ current_pos = 0
    /\ buffer = <<>>
    /\ rd = IdleRead
    /\ sLast = NoSLast
    /\ sHist = NoHist

\* FileStreamState::fetch (file.rs:252-265): the channel, the spawned
\* download_thread (pos = 0) and the state of the handle.
StreamInit ==
    /\ src \in {SourceOf(n) : n \in 0..MaxStreamSize}
    /\ dl = [pc |-> "top", pos |-> 0, tries |-> 0]
    /\ chan = <<>>
    /\ rxOpen = TRUE
    /\ current_pos = 0
    /\ buffer = <<>>
    /\ rd = IdleRead
    /\ sLast = NoSLast
    /\ sHist = NoHist

\* The sender is dropped when download_thread returns.
SenderClosed == dl.pc \in {"done", "dead"}

\* download_thread, head of `while pos < file_size` (file.rs:323-330): the next
\* range request is sent with a fresh retry count, or the thread finishes.
DlTop ==
    /\ dl.pc = "top"
    /\ dl' = IF dl.pos < Len(src)
             THEN [dl EXCEPT !.pc = "req", !.tries = 0]
             ELSE [dl EXCEPT !.pc = "done"]
    /\ sLast' = NoSLast
    /\ UNCHANGED <<src, chan, rxOpen, current_pos, buffer, rd, sHist>>
    /\ UNCHANGED nonStreamVars

\* The answer to the range request (file.rs:326-353): 206, or a failure that is
\* retried after retry_delay unless max_retry < tries.
DlResponse ==
    /\ dl.pc = "req"
    /\ \E ok \in BOOLEAN :
         dl' = IF ok THEN [dl EXCEPT !.pc = "body"]
               ELSE IF MaxRetry < dl.tries + 1
                    THEN [dl EXCEPT !.pc = "dead", !.tries = @ + 1]
                    ELSE [dl EXCEPT !.pc = "sleep", !.tries = @ + 1]
    /\ sLast' = NoSLast
    /\ UNCHANGED <<src, chan, rxOpen, current_pos, buffer, rd, sHist>>
    /\ UNCHANGED nonStreamVars

\* retry_delay has passed (file.rs:351): the request is sent again.
DlRetry ==
    /\ dl.pc = "sleep"
    /\ dl' = [dl EXCEPT !.pc = "req"]
    /\ sLast' = NoSLast
    /\ UNCHANGED <<src, chan, rxOpen, current_pos, buffer, rd, sHist>>
    /\ UNCHANGED nonStreamVars

\* One chunk of the body arrives and is sent into the channel (file.rs:356-362);
\* the send waits while the channel is full and fails when the receiver is gone.
DlChunk ==
    /\ dl.pc = "body"
    /\ dl.pos < Len(src)
    /\ \E k \in 1..Min(MaxChunk, Len(src) - dl.pos) :
         IF rxOpen
         THEN /\ Len(chan) < StreamBufferChunks
              /\ chan' = Append(chan, Slice(src, dl.pos, k))
              /\ dl' = [dl EXCEPT !.pos = @ + k]
         ELSE /\ dl' = [dl EXCEPT !.pos = @ + k, !.pc = "dead"]
              /\ UNCHANGED chan
    /\ sLast' = NoSLast
    /\ UNCHANGED <<src, rxOpen, current_pos, buffer, rd, sHist>>
    /\ UNCHANGED nonStreamVars

\* The body ends or breaks (resp.chunk() yields None or an error, file.rs:356):
\* back to the head of the outer loop.
DlBodyEnd ==
    /\ dl.pc = "body"
    /\ dl' = [dl EXCEPT !.pc = "top"]
    /\ sLast' = NoSLast
    /\ UNCHANGED <<src, chan, rxOpen, current_pos, buffer, rd, sHist>>
    /\ UNCHANGED nonStreamVars

\* Mutant of ReadRejected: only a read behind current_pos is rejected.
ReadRejectedBehind(offset) == offset < current_pos

\* The sequentiality test of FileStreamState::read (file.rs:269).
ReadRejected(offset) == offset # current_pos

\* Mutant of ChunkTail: the unread tail of the chunk is dropped.
ChunkTailLost(chunk, n) == <<>>

\* What read keeps of a chunk of which it used the first n bytes
\* (file.rs:288).
ChunkTail(chunk, n) == SubSeq(chunk, n + 1, Len(chunk))

\* FileStreamState::read up to its loop (file.rs:268-276).
StreamReadStart(offset, size) ==
    /\ rxOpen
    /\ rd.pc = "idle"
    /\ IF ReadRejected(offset)
       THEN /\ sLast' = [NoSLast EXCEPT
                           !.kind = "nonseq", !.offset = offset, !.size = size,
                           !.pos0 = current_pos, !.buf0 = buffer, !.chan0 = chan,
                           !.err_pos = current_pos, !.err_off = offset]
            /\ sHist' = [sHist EXCEPT !.nonseq = TRUE]
            /\ UNCHANGED rd
       ELSE /\ rd' = [pc |-> "loop", offset |-> offset, size |-> size,
                      ret_buf |-> <<>>]
            /\ sLast' = NoSLast
            /\ UNCHANGED sHist
    /\ UNCHANGED <<src, dl, chan, rxOpen, current_pos, buffer>>
    /\ UNCHANGED nonStreamVars

\* The end of FileStreamState::read (file.rs:299-308) with ret_buf = buf;
\* usedTail: this turn of the loop took the kept tail.
StreamReadReturn(buf, usedTail) ==
    /\ current_pos' = current_pos + Len(buf)
    /\ rd' = IdleRead
    /\ sLast' = [NoSLast EXCEPT
                   !.kind = IF Len(buf) = rd.size THEN "ok" ELSE "eof",
                   !.offset = rd.offset, !.size = rd.size, !.data = buf,
                   !.pos0 = current_pos,
                   !.err_pos = current_pos + Len(buf), !.err_off = Len(src)]
    /\ sHist' = [sHist EXCEPT
                   !.got = IF Len(buf) = rd.size THEN @ \o buf ELSE @,
                   !.eof = @ \/ Len(buf) # rd.size,
                   !.tail = @ \/ usedTail,
                   !.reads = Min(@ + 1, 2)]

\* One turn of the loop of FileStreamState::read (file.rs:277-297): the chunk
\* is the kept tail, else the next chunk of the channel; the loop ends when
\* the buffer is filled or the channel is closed and empty.
StreamReadStep ==
    /\ rd.pc = "loop"
    /\ LET rest == rd.size - Len(rd.ret_buf)
       IN  IF buffer # <<>> \/ chan # <<>>
           THEN LET chunk == IF buffer # <<>> THEN buffer ELSE Head(chan)
                IN  /\ chan' = IF buffer # <<>> THEN chan ELSE Tail(chan)
                    /\ IF rest < Len(chunk)
                       THEN /\ buffer' = ChunkTail(chunk, rest)
                            /\ StreamReadReturn(rd.ret_buf \o SubSeq(chunk, 1, rest),
                                             buffer # <<>>)
                       ELSE /\ buffer' = <<>>
                            /\ IF Len(rd.ret_buf) + Len(chunk) = rd.size
                               THEN StreamReadReturn(rd.ret_buf \o chunk, buffer # <<>>)
                               ELSE /\ rd' = [rd EXCEPT !.ret_buf = @ \o chunk]
                                    /\ sLast' = NoSLast
                                    /\ sHist' = [sHist EXCEPT
                                                   !.tail = @ \/ buffer # <<>>]
                                    /\ UNCHANGED current_pos
           ELSE /\ SenderClosed
                /\ StreamReadReturn(rd.ret_buf, FALSE)
                /\ UNCHANGED <<chan, buffer>>
    /\ UNCHANGED <<src, dl, rxOpen>>
    /\ UNCHANGED nonStreamVars

\* FilePool::close of the Streaming handle (file.rs:177-183): the state and
\* its receiver are dropped, with the chunks still in the channel.
StreamClose ==
    /\ rxOpen
    /\ rd.pc = "idle"
    /\ rxOpen' = FALSE
    /\ chan' = <<>>
    /\ buffer' = <<>>
    /\ sLast' = NoSLast
    /\ UNCHANGED <<src, dl, current_pos, rd, sHist>>
    /\ UNCHANGED nonStreamVars

StreamNext ==
    \/ DlTop
    \/ DlResponse
    \/ DlRetry
    \/ DlChunk
    \/ DlBodyEnd
    \/ \E offset \in 0..MaxStreamSize, size \in 0..MaxStreamSize :
          StreamReadStart(offset, size)
    \/ StreamReadStep
    \/ StreamClose

(***************************************************************************)
(* FilePool, DiskCache and FileCache                                       *)
(***************************************************************************)
\* The populations of a run are those its initial state provides.  The
\* remote's bytes are 1, 2, ...; local writes write the bytes 8 and 9; a byte
\* never written is 0.
Items == DOMAIN remote      \* the file items of the drive
CacheIds == DOMAIN fc       \* identities for the FileCaches alive together
Handles == DOMAIN hs        \* the slots of FilePool.handles in use
Callers == DOMAIN ops       \* the tasks that call FilePool::open/read/write
Tokens == DOMAIN up         \* the mtime tokens, one per write of the run

Zeros(n) == [i \in 1..n |-> 0]

\* The last write a cache has taken (observation).
NoWrite == [seq |-> 0, offset |-> 0, data |-> <<>>, waited |-> FALSE]

DeadFc == [alive |-> FALSE, item |-> 0, c_tag |-> 0, status |-> "Downloading",
           mtime |-> 0, file_size |-> 0, avail |-> 0, file |-> <<>>,
           src |-> <<>>, w |-> "gone", inv |-> FALSE, lw |-> NoWrite]

IdleOp == [pc |-> "idle", kind |-> "none", item |-> 0, wmode |-> FALSE,
           fc |-> 0, offset |-> 0, size |-> 0, data |-> <<>>, end |-> 0,
           seq |-> 0, seen |-> 0]

NoUploader == [pc |-> "none", fc |-> 0, data |-> <<>>, tag |-> 0]

\* lastOp describes the step just taken when that step completed a call of
\* FilePool (open, read, write); every other step resets it.  For an open:
\* the counter, the file size and the caches before the call, and floor, the
\* counter that evicting every LRU entry would have left.
NoLastOp == [kind |-> "none", result |-> "none", fc |-> 0, item |-> 0,
             offset |-> 0, size |-> 0, data |-> <<>>, seq |-> 0, late |-> FALSE,
             pre_total |-> 0, pre_size |-> 0, evicted |-> 0, pre_alive |-> {},
             in_lru |-> FALSE, floor |-> 0, wmode |-> FALSE, pre_hs |-> {},
             token |-> 0, after_meta |-> FALSE]


\* The strong references (Arc<FileCache>) that exist: the LRU, the open
\* handles, the calls in flight, the uploaders and sync_items' `outdated`.
LruHeld == {lru[i].fc : i \in 1..Len(lru)}

\* Mutant of OtherHolders: an uploader holds no reference.
OtherHoldersNoUploaders ==
    {hs[h] : h \in {x \in Handles : hs[x] > 0}}
    \cup {ops[o].fc : o \in {x \in Callers : ops[x].fc > 0}}
    \cup {sync.outdated[i] : i \in 1..Len(sync.outdated)}

\* Mutant of OtherHolders: an open handle holds no reference.
OtherHoldersNoHandles ==
    {ops[o].fc : o \in {x \in Callers : ops[x].fc > 0}}
    \cup {up[t].fc : t \in {x \in Tokens : up[x].pc # "none"}}
    \cup {sync.outdated[i] : i \in 1..Len(sync.outdated)}

OtherHolders ==
    {hs[h] : h \in {x \in Handles : hs[x] > 0}}
    \cup {ops[o].fc : o \in {x \in Callers : ops[x].fc > 0}}
    \cup {up[t].fc : t \in {x \in Tokens : up[x].pc # "none"}}
    \cup {sync.outdated[i] : i \in 1..Len(sync.outdated)}
Holders == LruHeld \cup OtherHolders

RECURSIVE SumSizes(_, _)
SumSizes(f, S) ==
    IF S = {} THEN 0
    ELSE LET c == CHOOSE x \in S : TRUE
         IN  f[c].file_size + SumSizes(f, S \ {c})

AliveCaches == {c \in CacheIds : fc[c].alive}

\* impl Drop for FileCache (file.rs:766-772), run for every cache that the
\* step leaves without a holder: f and total are the caches and the counter
\* as the step itself has set them.
Reap(f, total) ==
    LET gone == {c \in CacheIds : f[c].alive /\ c \notin Holders'}
    IN  /\ fc' = [c \in CacheIds |-> IF c \in gone THEN DeadFc ELSE f[c]]
        /\ total_size' = total - SumSizes(f, gone)
        /\ everDropped' = (everDropped \/ gone # {})

\* FilePool::new with the disk cache enabled (file.rs:89-100, 378-392), over
\* a remote drive whose item i has one of the sizes sizes[i].
FileInit(sizes, caches, handles, callers, tokens) ==
    /\ remote \in [DOMAIN sizes ->
                      {[size |-> n, c_tag |-> 1, content |-> SourceOf(n),
                        foreign |-> FALSE] :
                          n \in UNION {sizes[i] : i \in DOMAIN sizes}}]
    /\ \A i \in DOMAIN sizes : remote[i].size \in sizes[i]
    /\ lru = <<>>
    /\ fc = [c \in caches |-> DeadFc]
    /\ total_size = 0
    /\ hs = [h \in handles |-> 0]
    /\ ops = [o \in callers |-> IdleOp]
    /\ up = [t \in tokens |-> NoUploader]
    /\ nextToken = 1
    /\ sync = [outdated |-> <<>>]
    /\ lastOp = NoLastOp
    /\ everDropped = FALSE
    /\ events = <<>>

\* The state of the file variables in the specifications that do not use them.
FileQuiet == FileInit(<<{0}>>, {1}, {1}, {1}, {1}) /\ enable = TRUE /\ tagCap = MaxFileTag

UsedHandles == {h \in Handles : hs[h] # 0}

FreeHandle == CHOOSE h \in Handles : hs[h] = 0
HasFreeHandle == \E h \in Handles : hs[h] = 0
FreeCacheId == CHOOSE c \in CacheIds : ~fc[c].alive
HasFreeCacheId == \E c \in CacheIds : ~fc[c].alive

\* Somebody else changes the item at the remote: a new c_tag; foreign
\* remembers that the item was changed by another party.
RemoteFileChange(i) ==
    /\ remote[i].c_tag < MaxFileTag
    /\ remote' = [remote EXCEPT ![i].c_tag = @ + 1, ![i].foreign = TRUE]
    /\ lastOp' = NoLastOp
    /\ UNCHANGED <<lru, fc, total_size, hs, ops, up, nextToken, sync,
                   everDropped>>
    /\ UNCHANGED <<nonFileVars, events>>

\* FilePool::open_inner up to fetch_meta (file.rs:126-147): a cached item
\* yields a Cached handle at once (DiskCache::get, file.rs:394-396); without
\* a cache a write-mode open fails at once.
OpenStart(o, i, wmode) ==
    /\ ops[o].pc = "idle"
    /\ IF enable /\ LruHas(lru, i)
       THEN /\ HasFreeHandle
            /\ lru' = LruTouch(lru, i)
            /\ hs' = [hs EXCEPT ![FreeHandle] = LruEntry(lru, i).fc]
            /\ lastOp' = [NoLastOp EXCEPT !.kind = "open", !.result = "cached",
                                          !.item = i, !.fc = LruEntry(lru, i).fc,
                                          !.pre_total = total_size,
                                          !.pre_alive = AliveCaches,
                                          !.in_lru = TRUE, !.wmode = wmode,
                                          !.pre_hs = UsedHandles]
            /\ UNCHANGED ops
       ELSE IF ~enable /\ wmode
       THEN /\ lastOp' = [NoLastOp EXCEPT !.kind = "open",
                                          !.result = "WriteWithoutCache",
                                          !.item = i, !.wmode = wmode,
                                          !.pre_total = total_size,
                                          !.pre_alive = AliveCaches,
                                          !.pre_hs = UsedHandles]
            /\ UNCHANGED <<lru, hs, ops>>
       ELSE /\ ops' = [ops EXCEPT ![o] = [IdleOp EXCEPT !.pc = "meta",
                                          !.kind = "open", !.item = i,
                                          !.wmode = wmode]]
            /\ lastOp' = NoLastOp
            /\ UNCHANGED <<lru, hs>>
    /\ UNCHANGED <<remote, fc, total_size, up, nextToken, sync,
                   everDropped>>
    /\ UNCHANGED <<nonFileVars, events>>

\* Mutant of NeedsEviction: the space is never checked.
NeedsEvictionNever(total, size) == FALSE

\* The loop condition of try_alloc_and_fetch (file.rs:416-417).
NeedsEviction(total, size) == MaxCachedFileSize < total + size

\* "Drop LRU until we have enough space" (file.rs:415-423): the least recently
\* used entry is removed; its size leaves the counter at once when the LRU
\* held the last reference.  n counts the entries removed.
RECURSIVE EvictLoop(_, _, _, _)
EvictLoop(l, total, size, n) ==
    IF NeedsEviction(total, size)
    THEN IF l = <<>>
         THEN [lru |-> l, total |-> total, ok |-> FALSE, n |-> n]
         ELSE LET victim == Head(l).fc
                  freed  == IF victim \in OtherHolders THEN 0
                            ELSE fc[victim].file_size
              IN  EvictLoop(Tail(l), total - freed, size, n + 1)
    ELSE [lru |-> l, total |-> total, ok |-> TRUE, n |-> n]

\* FileCache::new (file.rs:514-542) over a backing file of file_size bytes
\* (set_len, file.rs:426).
NewFileCache(i, size, tag, content) ==
    [alive |-> TRUE, item |-> i, c_tag |-> tag, status |-> "Downloading",
     mtime |-> 0, file_size |-> size, avail |-> 0, file |-> Zeros(size),
     src |-> content, w |-> "run", inv |-> FALSE, lw |-> NoWrite]

\* fetch_meta fails and open_inner returns the error (file.rs:132, 146).
OpenFail(o) ==
    /\ ops[o].pc = "meta"
    /\ ops' = [ops EXCEPT ![o] = IdleOp]
    /\ lastOp' = [NoLastOp EXCEPT !.kind = "open", !.result = "error",
                                  !.item = ops[o].item, !.wmode = ops[o].wmode,
                                  !.pre_total = total_size,
                                  !.pre_alive = AliveCaches,
                                  !.in_lru = LruHas(lru, ops[o].item),
                                  !.pre_hs = UsedHandles]
    /\ UNCHANGED <<remote, lru, fc, total_size, hs, up, nextToken, sync,
                   everDropped>>
    /\ UNCHANGED <<nonFileVars, events>>

\* Mutant of Refusal: a refused write-mode open streams as well.
RefusalStreams(wmode) == "streaming"

\* What open_inner does when the cache does not admit the file
\* (file.rs:139-141): FileTooLarge in write mode, else a Streaming handle.
Refusal(wmode) == IF wmode THEN "FileTooLarge" ELSE "streaming"

\* Mutant of FoundUnderLock: try_alloc_and_fetch does not look again.
FoundUnderLockNever(l, i) == FALSE

\* The second look into the LRU, under its lock (file.rs:410-413).
FoundUnderLock(l, i) == LruHas(l, i)

\* FilePool::open_inner from the answer of fetch_meta on (file.rs:132-161),
\* with DiskCache::try_alloc_and_fetch (file.rs:398-448) and the insertion of
\* the handle (file.rs:173).  The metadata are those the remote has when the
\* caller resumes.
OpenFinish(o) ==
    /\ ops[o].pc = "meta"
    /\ HasFreeHandle
    /\ HasFreeCacheId
    /\ UNCHANGED <<remote, up, nextToken, sync>>
    /\ LET i    == ops[o].item
           size == remote[i].size
           base == [NoLastOp EXCEPT !.kind = "open", !.item = i,
                                    !.pre_total = total_size, !.pre_size = size,
                                    !.pre_alive = AliveCaches,
                                    !.in_lru = LruHas(lru, i),
                                    !.floor = total_size -
                                        SumSizes(fc, LruHeld \ OtherHolders),
                                    !.wmode = ops[o].wmode,
                                    !.pre_hs = UsedHandles,
                                    !.after_meta = TRUE]
           loop == EvictLoop(lru, total_size, size, 0)
           new  == FreeCacheId
           refused(l, n) ==
               \* not admitted, or no cache
               /\ lru' = l
               /\ hs' = IF Refusal(ops[o].wmode) = "streaming"
                        THEN [hs EXCEPT ![FreeHandle] = -1]
                        ELSE hs
               /\ lastOp' = [base EXCEPT !.result = Refusal(ops[o].wmode),
                                         !.evicted = n]
               /\ ops' = [ops EXCEPT ![o] = IdleOp]
               /\ Reap(fc, total_size)
       IN  IF ~enable \/ MaxCachedFileSize < size
           THEN refused(lru, 0)
           ELSE IF FoundUnderLock(lru, i)
           THEN /\ lru' = LruTouch(lru, i)
                /\ hs' = [hs EXCEPT ![FreeHandle] = LruEntry(lru, i).fc]
                /\ lastOp' = [base EXCEPT !.result = "cached",
                                          !.fc = LruEntry(lru, i).fc]
                /\ ops' = [ops EXCEPT ![o] = IdleOp]
                /\ UNCHANGED <<fc, total_size, everDropped>>
           ELSE IF ~loop.ok
           THEN refused(loop.lru, loop.n)
           ELSE /\ lru' = LruInsert(loop.lru, [key |-> i, fc |-> new], MaxFiles)
                /\ hs' = [hs EXCEPT ![FreeHandle] = new]
                /\ lastOp' = [base EXCEPT !.result = "admitted", !.fc = new,
                                          !.evicted = loop.n]
                /\ ops' = [ops EXCEPT ![o] = IdleOp]
                /\ Reap([fc EXCEPT ![new] =
                            NewFileCache(i, size, remote[i].c_tag,
                                         remote[i].content)],
                        total_size + size)
    /\ UNCHANGED <<nonFileVars, events>>

\* FilePool::close (file.rs:177-183).
Close(h) ==
    /\ hs[h] # 0
    /\ hs' = [hs EXCEPT ![h] = 0]
    /\ lastOp' = NoLastOp
    /\ UNCHANGED <<remote, lru, ops, up, nextToken, sync>>
    /\ Reap(fc, total_size)
    /\ UNCHANGED <<nonFileVars, events>>

\* FileCache::write_to_cache_thread, one chunk of at most k bytes
\* (file.rs:550-576).  The chunks are the bytes download_thread sends, in order.
CacheWriterStep(c, k) ==
    /\ fc[c].alive
    /\ fc[c].w = "run"
    /\ fc[c].avail < Len(fc[c].src)
    /\ LET pos  == fc[c].avail + Min(k, Len(fc[c].src) - fc[c].avail)
           file == [i \in 1..Len(fc[c].file) |->
                       IF fc[c].avail < i /\ i <= pos THEN fc[c].src[i]
                       ELSE fc[c].file[i]]
           full == pos = fc[c].file_size
           ok   == fc[c].status = "Downloading"    \* the assert of file.rs:572
       IN  fc' = [fc EXCEPT ![c].file = file, ![c].avail = pos,
                            ![c].status = IF full /\ ok THEN "Available" ELSE @,
                            ![c].w = IF ~full THEN "run"
                                     ELSE IF ok THEN "done" ELSE "panic"]
    /\ lastOp' = NoLastOp
    /\ UNCHANGED <<remote, lru, total_size, hs, ops, up, nextToken, sync,
                   everDropped>>
    /\ UNCHANGED <<nonFileVars, events>>

\* The chunk channel closes before the writer has seen file_size bytes:
\* download_thread gave up (file.rs:340-343), or the file is empty and no
\* chunk is ever sent (file.rs:323); write_to_cache_thread leaves its loop
\* (file.rs:550) and drops pos_tx.
CacheDownloadEnds(c) ==
    /\ fc[c].alive
    /\ fc[c].w = "run"
    /\ fc' = [fc EXCEPT ![c].w = "gone"]
    /\ lastOp' = NoLastOp
    /\ UNCHANGED <<remote, lru, total_size, hs, ops, up, nextToken, sync,
                   everDropped>>
    /\ UNCHANGED <<nonFileVars, events>>

\* Mutant of WaitCheck: an invalidated cache is served like an available one.
WaitCheckServesInvalidated(c, end) ==
    IF fc[c].status \in {"Available", "Dirty", "Invalidated"} THEN "ready"
    ELSE IF end <= fc[c].avail THEN "ready"
    ELSE "wait"

\* Mutant of WaitCheck: a Downloading cache is served without a look at
\* available_size.
WaitCheckReadyEarly(c, end) ==
    IF fc[c].status = "Invalidated" THEN "Invalidated" ELSE "ready"

\* wait_bytes_available under its first lock (file.rs:584-596).
WaitCheck(c, end) ==
    IF fc[c].status \in {"Available", "Dirty"} THEN "ready"
    ELSE IF fc[c].status = "Invalidated" THEN "Invalidated"
    ELSE IF end <= fc[c].avail THEN "ready"
    ELSE "wait"

\* wait_bytes_available under its second lock (file.rs:600-614).
WaitRecheck(c, end) ==
    IF fc[c].status \in {"Available", "Dirty"} THEN "ready"
    ELSE IF fc[c].status = "Invalidated" THEN "Invalidated"
    ELSE IF fc[c].avail < end THEN "UnexpectedEndOfDownload"
    ELSE "ready"

\* The call that has just completed, as lastOp; late tells that the cache
\* had been invalidated by sync_items when the call began.
Done(op, result, data) ==
    [NoLastOp EXCEPT !.kind = op.kind, !.result = result,
                     !.fc = op.fc, !.item = op.item, !.offset = op.offset,
                     !.size = op.size, !.data = data, !.seq = op.seq,
                     !.late = fc[op.fc].inv,
                     !.pre_total = total_size,
                     !.pre_size = fc[op.fc].file_size]

\* Mutant of FileWrite: the data lands at the start of the file.
FileWriteAtStart(file, offset, data) ==
    LET n == Max(Len(file), Len(data))
    IN  [i \in 1..n |-> IF i <= Len(data) THEN data[i] ELSE file[i]]

\* seek(offset) and write_all(data) on the backing file (file.rs:669-674): a
\* gap between the old end and offset reads as zeros, and writing no bytes
\* leaves the length of the file alone.
FileWrite(file, offset, data) ==
    LET n == IF data = <<>> THEN Len(file)
             ELSE Max(Len(file), offset + Len(data))
    IN  [i \in 1..n |->
            IF offset < i /\ i <= offset + Len(data) THEN data[i - offset]
            ELSE IF i <= Len(file) THEN file[i]
            ELSE 0]

\* Mutant of GrowthDelta: the growth of a file is not accounted.
GrowthDeltaNone(old, new) == 0

\* What a write adds to DiskCache.total_size (file.rs:676-681).
GrowthDelta(old, new) == IF old < new THEN new - old ELSE 0

\* The call of op ends with an error (or a panic), and gives up its reference.
Fail(o, op, err) ==
    /\ lastOp' = Done(op, err, <<>>)
    /\ ops' = [ops EXCEPT ![o] = IdleOp]
    /\ UNCHANGED <<up, nextToken>>
    /\ Reap(fc, total_size)

\* The rest of FileCache::read, holding the state lock (file.rs:629-636);
\* read_exact fails, and its unwrap panics, when the file is too short.
ReadFinish(o, op) ==
    LET c == op.fc
    IN  IF Len(fc[c].file) < op.end
        THEN Fail(o, op, "panic")
        ELSE /\ lastOp' = Done(op, "ok",
                               SubSeq(fc[c].file, op.offset + 1, op.end))
             /\ ops' = [ops EXCEPT ![o] = IdleOp]
             /\ UNCHANGED <<up, nextToken>>
             /\ Reap(fc, total_size)

\* The rest of FileCache::write, holding the state lock (file.rs:653-688).
WriteFinish(o, op) ==
    LET c        == op.fc
        mtime    == nextToken
        new_size == Max(fc[c].file_size, op.offset + Len(op.data))
    IN  IF fc[c].status \in {"Downloading", "Invalidated"}
        THEN Fail(o, op, "panic")       \* unreachable!() (file.rs:656)
        ELSE /\ lastOp' = [Done(op, "ok", op.data) EXCEPT !.seq = mtime]
             /\ ops' = [ops EXCEPT ![o] = IdleOp]
             /\ up' = [up EXCEPT ![mtime] =
                          [pc |-> "sleep", fc |-> c, data |-> <<>>, tag |-> 0]]
             /\ nextToken' = nextToken + 1
             /\ Reap([fc EXCEPT ![c].status = "Dirty", ![c].mtime = mtime,
                                ![c].file = FileWrite(fc[c].file, op.offset,
                                                      op.data),
                                ![c].file_size = new_size,
                                ![c].lw = [seq |-> mtime, offset |-> op.offset,
                                           data |-> op.data,
                                           waited |-> (ops[o].pc = "wait")]],
                     total_size + GrowthDelta(fc[c].file_size, new_size))

Finish(o, op) ==
    IF op.kind = "read" THEN ReadFinish(o, op) ELSE WriteFinish(o, op)

\* wait_bytes_available up to its watch loop (file.rs:584-598) and, when it
\* returns at once, the rest of the call.  The state lock is free whenever a
\* task is between two steps, so lock().await does not suspend the caller.
\* rx is a clone of the receiver kept in the state, which nobody ever marks
\* as seen: whatever was sent so far is unseen by rx (op.seen = 0).
Await(o, op) ==
    LET r == WaitCheck(op.fc, op.end)
    IN  IF r = "ready" THEN Finish(o, op)
        ELSE IF r = "wait"
        THEN /\ ops' = [ops EXCEPT ![o] = op]
             /\ lastOp' = NoLastOp
             /\ UNCHANGED <<fc, total_size, up, nextToken, everDropped>>
        ELSE Fail(o, op, r)

\* FilePool::read on a Cached handle (file.rs:185-196) and FileCache::read
\* (file.rs:617-637) up to the first suspension.
Read(o, h, offset, size) ==
    /\ ops[o].pc = "idle"
    /\ hs[h] > 0
    /\ UNCHANGED <<remote, lru, hs, sync>>
    /\ LET c  == hs[h]
           op == [IdleOp EXCEPT !.pc = "wait", !.kind = "read", !.fc = c,
                     !.item = fc[c].item,
                     !.offset = offset, !.size = size,
                     !.end = Min(fc[c].file_size, offset + size),
                     !.seq = nextToken]
       IN  IF fc[c].file_size <= offset \/ size = 0
           THEN /\ lastOp' = Done(op, "ok", <<>>)
                /\ UNCHANGED <<ops, fc, total_size, up, nextToken, everDropped>>
           ELSE Await(o, op)
    /\ UNCHANGED <<nonFileVars, events>>

WritesInFlight == Cardinality({o \in Callers : ops[o].kind = "write"})

\* FilePool::write on a Cached handle (file.rs:200-226) and FileCache::write
\* (file.rs:639-689) up to the first suspension.
Write(o, h, offset, data) ==
    /\ ops[o].pc = "idle"
    /\ hs[h] > 0
    /\ nextToken + WritesInFlight \in Tokens
    /\ UNCHANGED <<remote, lru, hs, sync>>
    /\ LET c  == hs[h]
           op == [IdleOp EXCEPT !.pc = "wait", !.kind = "write", !.fc = c,
                     !.item = fc[c].item,
                     !.offset = offset, !.size = Len(data), !.data = data,
                     !.end = fc[c].file_size,
                     !.seq = nextToken]
       IN  IF UploadMaxSize < offset + Len(data)
           THEN /\ lastOp' = Done(op, "FileTooLarge", <<>>)
                /\ UNCHANGED <<ops, fc, total_size, up, nextToken, everDropped>>
           ELSE Await(o, op)
    /\ UNCHANGED <<nonFileVars, events>>

\* Mutant of Changed: the loss of the sender does not wake the receiver.
ChangedIgnoresClose(c, seen) == fc[c].avail # seen

\* rx.changed() completes (file.rs:598): a value rx has not seen was sent
\* (every send raises the value, file.rs:559-568), or pos_tx was dropped.
Changed(c, seen) == fc[c].avail # seen \/ fc[c].w # "run"

\* One round of the watch loop of wait_bytes_available (file.rs:598): rx
\* marks the value as seen and waits again while the value is below end and
\* changed() was Ok; else the second lock and the rest of the call
\* (file.rs:600-614).
OpWake(o) ==
    /\ ops[o].pc = "wait"
    /\ Changed(ops[o].fc, ops[o].seen)
    /\ UNCHANGED <<remote, lru, hs, sync>>
    /\ LET c == ops[o].fc
           r == WaitRecheck(c, ops[o].end)
       IN  IF fc[c].avail # ops[o].seen /\ fc[c].avail < ops[o].end
           THEN /\ ops' = [ops EXCEPT ![o].seen = fc[c].avail]
                /\ lastOp' = NoLastOp
                /\ UNCHANGED <<fc, total_size, up, nextToken, everDropped>>
           ELSE IF r = "ready" THEN Finish(o, ops[o])
           ELSE Fail(o, ops[o], r)
    /\ UNCHANGED <<nonFileVars, events>>

\* Mutant of TokenCurrent: any Dirty status passes the check.
TokenCurrentAnyDirty(c, t) == fc[c].status = "Dirty"

\* `FileCacheStatus::Dirty(mtime) if mtime == lock_mtime` (file.rs:705).
TokenCurrent(c, t) == fc[c].status = "Dirty" /\ fc[c].mtime = t

\* upload_thread after a sleep (flush_delay or retry_delay): the check of the
\* token and the read of the whole file (file.rs:698-713).  lastOp records
\* the wake-up: the uploader's token, the token it saw (0 when the status is
\* not Dirty) and whether it goes on to upload.
UploaderWake(t) ==
    /\ up[t].pc \in {"sleep", "retry"}
    /\ LET c  == up[t].fc
           r  == [up[t] EXCEPT !.pc = "upload", !.data = fc[c].file]
           go == /\ TokenCurrent(c, t)
                 /\ fc[c].file_size <= Len(fc[c].file)   \* else read_exact fails
       IN  /\ up' = [up EXCEPT ![t] = IF go THEN r ELSE NoUploader]
           /\ lastOp' = [NoLastOp EXCEPT
                           !.kind = "wake", !.seq = t, !.fc = c,
                           !.result = IF go THEN "upload" ELSE "exit",
                           !.token = IF fc[c].status = "Dirty" THEN fc[c].mtime
                                     ELSE 0,
                           !.late = up[t].pc = "retry"]
    /\ UNCHANGED <<remote, lru, hs, ops, nextToken, sync>>
    /\ Reap(fc, total_size)
    /\ UNCHANGED <<nonFileVars, events>>

\* The remote stores the body of upload_small and gives the item a new c_tag.
UploadStored(t) ==
    /\ up[t].pc = "upload"
    /\ LET i == fc[up[t].fc].item
       IN  /\ remote[i].c_tag < tagCap
           /\ remote' = [remote EXCEPT ![i].size = Len(up[t].data),
                                       ![i].c_tag = @ + 1,
                                       ![i].content = up[t].data]
           /\ up' = [up EXCEPT ![t].pc = "stored",
                               ![t].tag = remote[i].c_tag + 1]
    /\ lastOp' = NoLastOp
    /\ UNCHANGED <<lru, fc, total_size, hs, ops, nextToken, sync, everDropped>>
    /\ UNCHANGED <<nonFileVars, events>>

\* upload_small fails; the uploader sleeps retry_delay (file.rs:725-735).
UploadFail(t) ==
    /\ up[t].pc = "upload"
    /\ up' = [up EXCEPT ![t].pc = "retry", ![t].data = <<>>]
    /\ lastOp' = NoLastOp
    /\ UNCHANGED <<remote, lru, fc, total_size, hs, ops, nextToken, sync,
                   everDropped>>
    /\ UNCHANGED <<nonFileVars, events>>

\* Mutant of ConfirmedTag: the cache keeps the c_tag it had.
ConfirmedTagKept(t) == fc[up[t].fc].c_tag

\* The c_tag of the item that upload_small returned (file.rs:743).
ConfirmedTag(t) == up[t].tag

\* The uploader receives the uploaded item: it stores the new c_tag and
\* sends the UpdateFile event (file.rs:738-753); event_tx has room.
UploadResponse(t) ==
    /\ up[t].pc = "stored"
    /\ fc' = [fc EXCEPT ![up[t].fc].c_tag = ConfirmedTag(t)]
    /\ events' = Append(events, [item |-> fc[up[t].fc].item,
                                 size |-> Len(up[t].data),
                                 c_tag |-> up[t].tag])
    /\ up' = [up EXCEPT ![t].pc = "post", ![t].data = <<>>]
    /\ lastOp' = NoLastOp
    /\ UNCHANGED <<remote, lru, total_size, hs, ops, nextToken, sync,
                   everDropped>>
    /\ UNCHANGED nonFileVars

\* Mutant of Reconciled: the uploader sets Available whatever it finds.
ReconciledAlways(c, t) == "Available"

\* The status the uploader of token t leaves (file.rs:757-762).
Reconciled(c, t) ==
    IF fc[c].status = "Dirty" /\ fc[c].mtime = t THEN "Available"
    ELSE fc[c].status

\* The end of upload_thread (file.rs:756-763).  lastOp records the status
\* and the token the uploader found, and the status it left.
UploadReconcile(t) ==
    /\ up[t].pc = "post"
    /\ up' = [up EXCEPT ![t] = NoUploader]
    /\ UNCHANGED <<remote, lru, hs, ops, nextToken, sync>>
    /\ LET c == up[t].fc
       IN  /\ lastOp' = [NoLastOp EXCEPT
                           !.kind = "reconcile", !.seq = t, !.fc = c,
                           !.item = fc[c].item,
                           !.token = IF fc[c].status = "Dirty" THEN fc[c].mtime
                                     ELSE 0,
                           !.result = Reconciled(c, t)]
           /\ Reap([fc EXCEPT ![c].status = Reconciled(c, t)], total_size)
    /\ UNCHANGED <<nonFileVars, events>>

\* The first loop of sync_items over the batch, under the LRU lock
\* (file.rs:451-478): scan is [lru, outdated].  The batch lists file items
\* with the c_tag the remote has now.
RECURSIVE SyncScan(_, _)
SyncScan(batch, scan) ==
    IF batch = <<>> THEN scan
    ELSE LET i == Head(batch)
             l == scan.lru
         IN  IF ~LruHas(l, i) THEN SyncScan(Tail(batch), scan)
             ELSE IF fc[LruEntry(l, i).fc].c_tag = remote[i].c_tag
             THEN SyncScan(Tail(batch), [scan EXCEPT !.lru = LruTouch(l, i)])
             ELSE SyncScan(Tail(batch),
                           [lru |-> LruRemove(l, i),
                            outdated |-> Append(scan.outdated,
                                                LruEntry(l, i).fc)])

Batches == {<<i>> : i \in Items} \cup
           {<<i, j>> : <<i, j>> \in {p \in Items \X Items : p[1] # p[2]}}

\* DiskCache::sync_items up to its first await (file.rs:450-479).
SyncStart(batch) ==
    /\ sync.outdated = <<>>
    /\ LET scan == SyncScan(batch, [lru |-> lru, outdated |-> <<>>])
       IN  /\ lru' = scan.lru
           /\ sync' = [outdated |-> scan.outdated]
    /\ lastOp' = NoLastOp
    /\ UNCHANGED <<remote, fc, total_size, hs, ops, up, nextToken, everDropped>>
    /\ UNCHANGED <<nonFileVars, events>>

\* One round of the second loop of sync_items (file.rs:479-481).
SyncStep ==
    /\ sync.outdated # <<>>
    /\ sync' = [outdated |-> Tail(sync.outdated)]
    /\ lastOp' = NoLastOp
    /\ UNCHANGED <<remote, lru, hs, ops, up, nextToken>>
    /\ Reap([fc EXCEPT ![Head(sync.outdated)].status = "Invalidated",
                       ![Head(sync.outdated)].inv = TRUE],
            total_size)
    /\ UNCHANGED <<nonFileVars, events>>

\* The steps of the file side; the arguments of the reads and writes and
\* the chunk sizes of the cache downloads are those of the specification.
FileStep(reads, writes, chunks) ==
    \/ \E i \in Items : RemoteFileChange(i)
    \/ \E o \in Callers, i \in Items, wmode \in BOOLEAN : OpenStart(o, i, wmode)
    \/ \E o \in Callers : OpenFinish(o)
    \/ \E o \in Callers : OpenFail(o)
    \/ \E h \in Handles : Close(h)
    \/ \E c \in CacheIds, k \in chunks : CacheWriterStep(c, k)
    \/ \E c \in CacheIds : CacheDownloadEnds(c)
    \/ \E o \in Callers, h \in Handles, a \in reads : Read(o, h, a[1], a[2])
    \/ \E o \in Callers, h \in Handles, a \in writes : Write(o, h, a[1], a[2])
    \/ \E o \in Callers : OpWake(o)
    \/ \E t \in Tokens : UploaderWake(t)
    \/ \E t \in Tokens : UploadStored(t)
    \/ \E t \in Tokens : UploadFail(t)
    \/ \E t \in Tokens : UploadResponse(t)
    \/ \E t \in Tokens : UploadReconcile(t)
    \/ \E batch \in Batches : SyncStart(batch)
    \/ SyncStep

\* One item and its FileCaches: reads and writes of every shape.
CacheReads == {0, 1, 2} \X {0, 1, 2}
CacheWrites == {0, 1, 3} \X {<<8>>, <<9, 8>>}
CacheNext == FileStep(CacheReads, CacheWrites, 1..MaxChunk)

\* Two items and the DiskCache: whole-file downloads, a write that grows.
DiskReads == {<<0, 1>>}
DiskWrites == {<<1, <<9, 8>>>>}
DiskNext == FileStep(DiskReads, DiskWrites, {MaxChunk})

(***************************************************************************)
(* Specifications                                                          *)
(***************************************************************************)
InitStream == StreamInit /\ DirInit /\ FileQuiet
SpecStream == InitStream /\ [][StreamNext]_vars

\* download_thread is a spawned task: whenever the answer it awaits can
\* come, it comes and the task goes on; a body gives a chunk or ends.
StreamFair ==
    /\ WF_vars(DlTop)
    /\ WF_vars(DlResponse)
    /\ WF_vars(DlRetry)
    /\ WF_vars(DlChunk \/ DlBodyEnd)
SpecStreamLive == InitStream /\ [][StreamNext]_vars /\ StreamFair

\* One item and two callers, whose opens overlap.
RaceReads == {<<0, 2>>}
RaceWrites == {<<0, <<8>>>>}
RaceNext == FileStep(RaceReads, RaceWrites, {MaxChunk})
InitRace == DirInit /\ StreamQuiet
            /\ FileInit(<<{2}>>, {1, 2}, {1, 2}, {1, 2}, {1})
            /\ enable = TRUE /\ tagCap = MaxFileTag
SpecRace == InitRace /\ [][RaceNext]_vars

\* One item and one FileCache, two writes, and a remote that stores the
\* uploads of both uploaders.
UploadReads == {<<0, 2>>}
UploadWrites == {<<0, <<8>>>>, <<1, <<9>>>>}
UploadNext == FileStep(UploadReads, UploadWrites, {MaxChunk})
InitUpload == DirInit /\ StreamQuiet
              /\ FileInit(<<{2}>>, {1}, {1}, {1}, {1, 2})
              /\ enable = TRUE /\ tagCap = MaxFileTag + 1
SpecUpload == InitUpload /\ [][UploadNext]_vars

\* Two items that push each other out of the LRU, one handle and one
\* write, with the uploader scheduled fairly: it wakes from its sleeps and
\* takes the answers, and its upload requests succeed in the end.
OrphanReads == {<<0, 1>>}
OrphanWrites == {<<0, <<8>>>>}
OrphanNext == FileStep(OrphanReads, OrphanWrites, {MaxChunk})
InitOrphan == DirInit /\ StreamQuiet
              /\ FileInit(<<{1}, {1}>>, {1, 2}, {1}, {1}, {1})
              /\ enable = TRUE /\ tagCap = MaxFileTag + 1
OrphanFair ==
    /\ WF_vars(\E t \in Tokens : UploaderWake(t))
    /\ SF_vars(\E t \in Tokens : UploadStored(t))
    /\ WF_vars(\E t \in Tokens : UploadResponse(t))
    /\ WF_vars(\E t \in Tokens : UploadReconcile(t))
SpecOrphan == InitOrphan /\ [][OrphanNext]_vars /\ OrphanFair

InitDir == DirInit /\ StreamQuiet /\ FileQuiet
SpecDir == InitDir /\ [][DirNext]_vars

InitCache == DirInit /\ StreamQuiet /\ FileInit(<<{0, 2}>>, {1, 2}, {1, 2}, {1}, {1, 2})
             /\ enable = TRUE /\ tagCap = MaxFileTag
SpecCache == InitCache /\ [][CacheNext]_vars

InitDisk == DirInit /\ StreamQuiet /\ FileInit(<<{2}, {1, 3}>>, {1, 2, 3}, {1, 2}, {1}, {1})
            /\ enable \in BOOLEAN /\ tagCap = MaxFileTag
SpecDisk == InitDisk /\ [][DiskNext]_vars

\* One item, one FileCache and one caller, with the tasks scheduled fairly:
\* a caller whose watch has changed runs, and the download of a cache goes
\* on (a chunk arrives) or ends.
LiveReads == {<<0, 1>>, <<0, 2>>}
LiveWrites == {<<0, <<8>>>>}
LiveNext == FileStep(LiveReads, LiveWrites, 1..MaxChunk)
InitLive == DirInit /\ StreamQuiet /\ FileInit(<<{0, 2}>>, {1}, {1}, {1}, {1})
            /\ enable = TRUE /\ tagCap = MaxFileTag
LiveFair ==
    /\ WF_vars(\E o \in Callers : OpWake(o))
    /\ WF_vars(\E c \in CacheIds :
                  \/ \E k \in 1..MaxChunk : CacheWriterStep(c, k)
                  \/ CacheDownloadEnds(c))
SpecLive == InitLive /\ [][LiveNext]_vars /\ LiveFair

\* Two items that fit into the cache together or not, so that the LRU
\* overflows max_files or the byte limit, and two handles to hold evicted
\* caches.
EvictReads == {<<0, 1>>}
EvictWrites == {<<0, <<8>>>>}
EvictNext == FileStep(EvictReads, EvictWrites, {MaxChunk})
InitEvict == DirInit /\ StreamQuiet
             /\ FileInit(<<{1}, {1}>>, {1, 2}, {1, 2}, {1}, {1})
             /\ enable = TRUE /\ tagCap = MaxFileTag
SpecEvict == InitEvict /\ [][EvictNext]_vars

(***************************************************************************)
(* DirPool: properties                                                     *)
(***************************************************************************)
\* Does the LRU hold a snapshot of inode i that is fresh now, in the spec's
\* sense (now - fetched_at < cache_ttl)?
FreshInLru(i) == LruHas(dirLru, i) /\ now - LruEntry(dirLru, i).at < CacheTtl

\* C9 as stated: for all opens of one inode that fall within one cache_ttl
\* window, concurrent opens included, at most one remote directory fetch is
\* issued.
C9_AtMostOneFetchPerWindow == dirWin.n <= 1

\* C9 amended: an open that starts while the LRU holds a snapshot of the inode
\* with now - fetched_at < cache_ttl issues no fetch and returns a handle over
\* that cached snapshot; only opens that find no such snapshot fetch.
C9_FreshOpenIssuesNoFetch ==
    /\ \A t \in DirTasks : dirOp[t].pc # "idle" => ~dirOp[t].fresh
    /\ dirLast.kind \in {"fetch", "item", "notmod", "err"} => ~dirLast.fresh
    /\ dirLast.kind = "hit" =>
          /\ dirLast.fresh
          /\ FreshInLru(dirLast.ino)
          /\ dirHandles[dirLast.fh] = LruEntry(dirLru, dirLast.ino).snap

\* Witness of C9: an open of the watched inode was served from the cache
\* inside the window that an earlier fetch of that inode opened.
C9_Witness == dirLast.kind = "hit" /\ dirLast.ino = WatchedInode /\ dirWin.n = 1

\* C10: an open that finds a snapshot older than cache_ttl issues a fetch
\* conditional on that snapshot's c_tag; on "not modified" the new handle is
\* over the prior snapshot, and the LRU holds that snapshot with fetched_at
\* refreshed to the time of this fetch, so that it is fresh again.
C10_NotModifiedRevalidates ==
    /\ (dirLast.kind = "fetch" /\ LruHas(dirLru, dirLast.ino)) =>
          /\ dirLast.cond = LruEntry(dirLru, dirLast.ino).snap.c_tag
          /\ now - LruEntry(dirLru, dirLast.ino).at >= CacheTtl
    /\ \A t \in DirTasks :
          dirOp[t].resp = "notmod" =>
             IsSnap(dirOp[t].prev) /\ dirOp[t].cond = dirOp[t].prev.c_tag
    /\ dirLast.kind = "notmod" =>
          /\ IsSnap(dirLast.prev)
          /\ dirHandles[dirLast.fh] = dirLast.prev
          /\ LruHas(dirLru, dirLast.ino)
          /\ LruEntry(dirLru, dirLast.ino).snap = dirLast.prev
          /\ LruEntry(dirLru, dirLast.ino).at = now
          /\ (CacheTtl > 0 => FreshInLru(dirLast.ino))

\* Witness of C10: an open has just completed on a "not modified" answer.
C10_Witness == dirLast.kind = "notmod" /\ dirHandles[dirLast.fh].entries # <<>>

\* C11, as stated: lookup returns the outer None exactly when no snapshot of
\* the directory is fresh (now - fetched_at < cache_ttl, as in open); on a
\* fresh snapshot it returns the inner None exactly when the snapshot has no
\* entry of that name, and otherwise the entry, with
\* ttl <= cache_ttl - (now - fetched_at).
C11_LookupTriState ==
    dirLast.kind = "lookup" =>
        /\ dirLast.res = "miss" <=> ~dirLast.fresh
        /\ dirLast.fresh =>
              /\ dirLast.res = "absent" <=>
                    ~\E k \in 1..Len(dirLast.prev.entries) :
                        dirLast.prev.entries[k] = dirLast.name
              /\ dirLast.res = "found" => dirLast.ttl <= CacheTtl - dirLast.cond

(***************************************************************************)
(* Streaming handle: properties                                            *)
(***************************************************************************)
\* A read fails short only when the producer gave up or the read reaches
\* beyond the file.
ShortReadExcused ==
    sLast.kind = "eof" => (dl.pc = "dead" \/ sLast.offset + sLast.size > Len(src))

\* C7: whatever the chunks and whatever the consecutive reads, each read
\* returns exactly the requested number of bytes, these are the source bytes
\* at its offset, and the reads so far concatenate to the source up to
\* current_pos (to the whole source once current_pos = file_size); a read
\* inside the file fails only when the producer did not deliver the source.
C7_SequentialReadsYieldSource ==
    /\ sLast.kind = "ok" =>
          /\ Len(sLast.data) = sLast.size
          /\ sLast.data = Slice(src, sLast.offset, sLast.size)
    /\ ~sHist.eof => sHist.got = Slice(src, 0, current_pos)
    /\ ShortReadExcused

\* Witness of C7: the whole source of the largest size was read in several
\* reads, one of which began with the tail kept from an earlier chunk.
C7_Witness ==
    /\ Len(src) = MaxStreamSize
    /\ sHist.got = src
    /\ sHist.tail
    /\ sHist.reads >= 2
    /\ ~sHist.eof

\* C8: a read at an offset other than current_pos fails with
\* NonsequentialRead{current_pos, try_offset} and changes neither current_pos
\* nor the kept tail nor the channel; no read at another offset is served,
\* and the reads that follow at current_pos return the right bytes.
C8_NonsequentialReadRejected ==
    /\ sLast.kind = "nonseq" =>
          /\ sLast.offset # sLast.pos0
          /\ sLast.err_pos = sLast.pos0 /\ sLast.err_off = sLast.offset
          /\ current_pos = sLast.pos0
          /\ buffer = sLast.buf0
          /\ chan = sLast.chan0
          /\ rd.pc = "idle"
    /\ sLast.kind \in {"ok", "eof"} => sLast.offset = sLast.pos0
    /\ (sHist.nonseq /\ sLast.kind = "ok") =>
          /\ current_pos = sLast.offset + sLast.size
          /\ sLast.data = [i \in 1..sLast.size |-> src[sLast.offset + i]]
    /\ sHist.nonseq => ShortReadExcused

\* Witness of C8 (scenario S3): after a rejected read, a read at current_pos,
\* beyond the start of the file, has returned its bytes.
C8_Witness ==
    /\ sHist.nonseq
    /\ sLast.kind = "ok" /\ sLast.offset > 0 /\ sLast.size > 0
    /\ current_pos = Len(src)

(***************************************************************************)
(* Properties of the FileCache (SpecCache)                                 *)
(***************************************************************************)
\* The uploaders of cache c that are past their sleep and doing I/O: they
\* have read the backing file and their upload request is running.
BusyUploaders(c) ==
    {t \in Tokens : up[t].fc = c /\ up[t].pc \in {"upload", "stored"}}

\* C1: at any time at most one uploader of a FileCache is past its
\* flush_delay sleep and doing I/O.
C1_AtMostOneUploaderBusy ==
    \A c \in CacheIds : Cardinality(BusyUploaders(c)) <= 1

LateCall == lastOp.kind \in {"read", "write"} /\ lastOp.late

\* C2, as stated: every read or write on a cache that sync_items has
\* invalidated fails with Invalidated.
C2_LaterCallsFailInvalidated ==
    LateCall => lastOp.result = "Invalidated"

EarlyReturn ==
    \/ lastOp.kind = "read" /\ (lastOp.size = 0 \/ lastOp.pre_size <= lastOp.offset)
    \/ lastOp.kind = "write" /\ UploadMaxSize < lastOp.offset + lastOp.size

\* C2, amended: a cache that sync_items has invalidated stays Invalidated,
\* and every later read or write on it fails with Invalidated, except the
\* calls that return before they look at the status: a read of no bytes or
\* from the end of the file on (empty result), a write beyond upload.max_size
\* (FileTooLarge).
C2_LaterCallsFailUnlessEarlyReturn ==
    /\ \A c \in CacheIds : fc[c].inv => fc[c].status = "Invalidated"
    /\ LateCall /\ ~EarlyReturn => lastOp.result = "Invalidated"
    /\ LateCall /\ EarlyReturn =>
          lastOp.result = IF lastOp.kind = "read" THEN "ok" ELSE "FileTooLarge"

C2_Witness ==
    /\ LateCall /\ lastOp.kind = "write" /\ lastOp.result = "Invalidated"
    /\ fc[lastOp.fc].alive /\ fc[lastOp.fc].file_size > 0

\* The read just completed reads the range of the last write of its cache,
\* and began after that write had returned.
ReadsBackLastWrite ==
    /\ lastOp.kind = "read"
    /\ fc[lastOp.fc].alive
    /\ fc[lastOp.fc].lw.seq # 0
    /\ fc[lastOp.fc].lw.seq < lastOp.seq
    /\ lastOp.offset = fc[lastOp.fc].lw.offset
    /\ lastOp.size = Len(fc[lastOp.fc].lw.data)

\* C6: a write that returns successfully leaves file_size at
\* max(old size, offset + |data|), and a read of the written range that
\* follows it on a cache that is not invalidated returns exactly the data;
\* also when the write was issued while the cache was Downloading.
C6_WriteThenReadRoundTrip ==
    /\ lastOp.kind = "write" /\ lastOp.result = "ok" =>
          /\ fc[lastOp.fc].alive
          /\ fc[lastOp.fc].file_size = Max(lastOp.pre_size, lastOp.offset + lastOp.size)
          /\ fc[lastOp.fc].file_size >= lastOp.offset + lastOp.size
    /\ ReadsBackLastWrite /\ ~lastOp.late =>
          lastOp.result = "ok" /\ lastOp.data = fc[lastOp.fc].lw.data

C6_Witness ==
    /\ ReadsBackLastWrite /\ ~lastOp.late
    /\ lastOp.offset = 1 /\ lastOp.data = <<9, 8>>
    /\ Len(fc[lastOp.fc].src) = 2
    /\ fc[lastOp.fc].lw.waited

(***************************************************************************)
(* Properties of the DiskCache (SpecDisk)                                  *)
(***************************************************************************)
\* C3: DiskCache.total_size is the sum of file_size over the FileCaches
\* that are alive, and a FileCache is alive exactly while something holds
\* it (the LRU, a handle, a call in flight, an uploader, sync_items).
C3_TotalSizeIsSumOfAlive ==
    /\ AliveCaches = Holders
    /\ total_size = SumSizes(fc, AliveCaches)
    /\ total_size >= 0

C3_Witness ==
    /\ everDropped
    /\ \E c \in AliveCaches : fc[c].file_size > Len(fc[c].src)
    /\ \E c \in AliveCaches : fc[c].inv

\* A call of DiskCache::try_alloc_and_fetch has returned.
Admission ==
    /\ lastOp.kind = "open" /\ enable
    /\ lastOp.result \in {"admitted", "FileTooLarge", "streaming"}

\* C4: an admission never leaves the counter above max_total_size; when
\* evicting every LRU entry would not free enough space the call is not
\* admitted; and a call that is not admitted creates no cache and, unless the
\* file itself is too large, has emptied the LRU.
C4_AdmissionKeepsTotalBounded ==
    /\ Admission /\ lastOp.result = "admitted" =>
          total_size <= MaxTotalSize /\ fc[lastOp.fc].alive
    /\ Admission /\ MaxTotalSize < lastOp.floor + lastOp.pre_size =>
          lastOp.result # "admitted"
    /\ Admission /\ lastOp.result # "admitted" =>
          /\ AliveCaches \subseteq lastOp.pre_alive
          /\ lastOp.pre_size <= MaxCachedFileSize => lru = <<>>

C4_Witness ==
    /\ Admission /\ lastOp.result = "streaming"
    /\ lastOp.pre_size <= MaxCachedFileSize
    /\ MaxTotalSize < lastOp.floor + lastOp.pre_size
    /\ lastOp.evicted > 0 /\ lru = <<>>

\* C5, as stated: when current_total + file_size <= max_total_size the
\* admission evicts nothing and succeeds.
C5_NoEvictionWithinTotal ==
    Admission /\ ~lastOp.in_lru /\ lastOp.pre_size <= MaxCachedFileSize
              /\ lastOp.pre_total + lastOp.pre_size <= MaxTotalSize
        => lastOp.evicted = 0 /\ lastOp.result = "admitted"

OpenDone == lastOp.kind = "open"
NewHandles == UsedHandles \ lastOp.pre_hs

\* C12: open yields a Cached handle when the cache is enabled and the item
\* is cached or admitted; FileTooLarge when the cache is enabled, admission
\* fails and write_mode is set; WriteWithoutCache when the cache is disabled
\* and write_mode is set; a Streaming handle otherwise (when fetch_meta
\* answers).  A failed open allocates no handle, and a write-mode open never
\* returns a Streaming handle.
C12_OpenOutcomes ==
    OpenDone =>
        /\ lastOp.result \in {"cached", "admitted", "FileTooLarge",
                               "WriteWithoutCache", "streaming", "error"}
        /\ lastOp.result \in {"cached", "admitted"} =>
              /\ enable
              /\ \E h \in Handles : /\ NewHandles = {h}
                                    /\ hs[h] = lastOp.fc
                                    /\ fc[lastOp.fc].alive
                                    /\ fc[lastOp.fc].item = lastOp.item
        /\ enable /\ lastOp.in_lru /\ lastOp.result # "error" =>
              lastOp.result = "cached"
        /\ lastOp.result = "FileTooLarge" =>
              /\ enable /\ lastOp.wmode /\ ~lastOp.in_lru
              /\ MaxCachedFileSize < lastOp.pre_size \/ lru = <<>>
        /\ lastOp.result = "WriteWithoutCache" <=> ~enable /\ lastOp.wmode
        /\ lastOp.result = "streaming" =>
              /\ ~lastOp.wmode
              /\ ~lastOp.in_lru
              /\ ~enable \/ MaxCachedFileSize < lastOp.pre_size \/ lru = <<>>
              /\ \E h \in Handles : NewHandles = {h} /\ hs[h] = -1
        /\ lastOp.result \in {"FileTooLarge", "WriteWithoutCache", "error"} =>
              NewHandles = {} /\ AliveCaches \subseteq lastOp.pre_alive

C12_Witness ==
    /\ OpenDone /\ lastOp.result = "FileTooLarge"
    /\ lastOp.pre_size <= MaxCachedFileSize /\ lastOp.evicted > 0

\* The uploader of token t leaves its first sleep in this step.
FirstWake(t) == up[t].pc = "sleep" /\ up'[t].pc # "sleep"

\* The write of token t is in the file: its bytes are where it put them.
WriteInBody(w, body) ==
    /\ w.offset + Len(w.data) <= Len(body)
    /\ SubSeq(body, w.offset + 1, w.offset + Len(w.data)) = w.data

\* C13: an uploader that wakes from flush_delay and finds a token other
\* than its own exits without an upload request; an uploader issues a
\* request only on waking with its own token still current, i.e. it is the
\* uploader of the last write, and the body is the backing file as the last
\* write left it; once its request has succeeded it issues no other, and a
\* finished uploader never runs again.
C13_OnlyLastUploaderUploads ==
    [][\A t \in Tokens :
         /\ FirstWake(t) /\ ~(fc[up[t].fc].status = "Dirty"
                               /\ fc[up[t].fc].mtime = t)
               => up'[t] = NoUploader
         /\ up[t].pc # "upload" /\ up'[t].pc = "upload" =>
               /\ up[t].pc \in {"sleep", "retry"}
               /\ fc[up[t].fc].status = "Dirty" /\ fc[up[t].fc].mtime = t
               /\ fc[up[t].fc].lw.seq = t
               /\ up'[t].data = fc[up[t].fc].file
               /\ Len(up'[t].data) = fc[up[t].fc].file_size
               /\ WriteInBody(fc[up[t].fc].lw, up'[t].data)
         /\ up[t].pc \in {"stored", "post"} =>
               up'[t].pc \in {"stored", "post", "none"}
         /\ up[t].pc = "none" /\ t < nextToken => up'[t].pc = "none"]_vars

\* The first uploader wakes after a second write, from flush_delay, and
\* exits; the second uploader is still to upload the file that holds both
\* writes.
C13_Witness ==
    /\ lastOp.kind = "wake" /\ lastOp.seq = 1 /\ ~lastOp.late
    /\ lastOp.result = "exit" /\ lastOp.token = 2
    /\ up[1] = NoUploader /\ up[2].pc = "sleep"
    /\ fc[lastOp.fc].alive /\ fc[lastOp.fc].file = <<8, 9, 8>>

\* The status of cache c with its token: Dirty(t) and Dirty(t') differ.
StatusOf(f, c) == <<f[c].status, IF f[c].status = "Dirty" THEN f[c].mtime ELSE 0>>

\* C14: a step that changes the status of a FileCache is one of
\* Downloading -> Available by the writer task with file_size bytes written,
\* Available or Dirty -> Dirty(t) by a write with a new token, Dirty(t) ->
\* Available by the uploader of token t after its upload, or Downloading,
\* Available or Dirty -> Invalidated by sync_items.  No step leads to
\* Downloading, and an Invalidated cache keeps its status.
C14_StatusTransitions ==
    [][\A c \in CacheIds :
         fc[c].alive /\ fc'[c].alive /\ StatusOf(fc, c) # StatusOf(fc', c) =>
           LET old == fc[c].status
               new == fc'[c].status
           IN  /\ new # "Downloading"
               /\ old # "Invalidated"
               /\ \/ /\ old = "Downloading" /\ new = "Available"
                     /\ fc[c].w = "run" /\ fc'[c].w = "done"
                     /\ fc'[c].avail = fc[c].file_size
                     /\ fc[c].avail < fc'[c].avail
                  \/ /\ old \in {"Available", "Dirty"} /\ new = "Dirty"
                     /\ lastOp'.kind = "write" /\ lastOp'.result = "ok"
                     /\ lastOp'.fc = c
                     /\ fc'[c].mtime = nextToken /\ fc[c].mtime < nextToken
                  \/ /\ old = "Dirty" /\ new = "Available"
                     /\ up[fc[c].mtime].pc = "post" /\ up[fc[c].mtime].fc = c
                     /\ up'[fc[c].mtime] = NoUploader
                  \/ /\ new = "Invalidated"
                     /\ sync.outdated # <<>> /\ Head(sync.outdated) = c
                     /\ sync'.outdated = Tail(sync.outdated)]_vars

\* An uploader ends after a successful upload on a cache that sync_items
\* has invalidated meanwhile, and leaves it Invalidated.
C14_Witness ==
    /\ lastOp.kind = "reconcile" /\ lastOp.result = "Invalidated"
    /\ fc[lastOp.fc].alive /\ fc[lastOp.fc].status = "Invalidated"
    /\ fc[lastOp.fc].mtime = lastOp.seq

\* A read has just completed on a cache that is alive and was not
\* invalidated; its end is min(file_size, offset + size).
ReadDone ==
    /\ lastOp.kind = "read" /\ fc[lastOp.fc].alive /\ ~fc[lastOp.fc].inv
    /\ lastOp.offset < lastOp.pre_size /\ 0 < lastOp.size
ReadEnd == Min(lastOp.pre_size, lastOp.offset + lastOp.size)

\* C15: a read that waits on a Downloading cache ends; it returns its bytes
\* when the writer task has announced them, and it fails with
\* UnexpectedEndOfDownload exactly when the download has ended with fewer
\* bytes written.
C15_ReadOnDownloadingEnds ==
    /\ [](ReadDone =>
            /\ lastOp.result \in {"ok", "UnexpectedEndOfDownload"}
            /\ lastOp.result = "ok" =>
                  /\ Len(lastOp.data) = ReadEnd - lastOp.offset
                  /\ fc[lastOp.fc].status = "Downloading" =>
                        ReadEnd <= fc[lastOp.fc].avail
            /\ lastOp.result = "UnexpectedEndOfDownload" =>
                  /\ fc[lastOp.fc].status = "Downloading"
                  /\ fc[lastOp.fc].w # "run"
                  /\ fc[lastOp.fc].avail < ReadEnd)
    /\ (ops[1].pc = "wait" /\ ops[1].kind = "read") ~> (ops[1].pc = "idle")

\* A read of two bytes has waited and failed: the download ended after one.
C15_Witness ==
    /\ ReadDone /\ lastOp.result = "UnexpectedEndOfDownload"
    /\ lastOp.size = 2 /\ fc[lastOp.fc].avail = 1

\* Cache c is out of the LRU by eviction, not by sync_items.
Evicted(c) ==
    /\ fc[c].alive /\ c \notin LruHeld /\ ~fc[c].inv
    /\ \A i \in 1..Len(sync.outdated) : sync.outdated[i] # c

\* A read or a write has just completed on an evicted cache of a file that
\* is not empty.
EvictedCall ==
    /\ lastOp.kind \in {"read", "write"} /\ Evicted(lastOp.fc)
    /\ 0 < lastOp.pre_size

C17_UploadSuccessThenReconcile ==
    [][/\ \A t \in Tokens :
            /\ up[t].pc = "stored" /\ up'[t].pc # "stored" =>
                  LET c == up[t].fc
                  IN  /\ up'[t].pc = "post"
                      /\ fc'[c].c_tag = up[t].tag
                      /\ up[t].tag = remote[fc[c].item].c_tag
                            \/ up[t].tag < remote[fc[c].item].c_tag
                      /\ events' = Append(events, [item |-> fc[c].item,
                                                   size |-> Len(up[t].data),
                                                   c_tag |-> up[t].tag])
                      /\ StatusOf(fc', c) = StatusOf(fc, c)
            /\ up[t].pc = "post" /\ up'[t].pc # "post" =>
                  LET c == up[t].fc
                  IN  /\ up'[t] = NoUploader
                      /\ events' = events
                      /\ fc'[c].alive =>
                            /\ fc'[c].c_tag = fc[c].c_tag
                            /\ fc'[c].status = "Available" /\ fc[c].status # "Available"
                                  <=> fc[c].status = "Dirty" /\ fc[c].mtime = t
                            /\ ~(fc[c].status = "Dirty" /\ fc[c].mtime = t)
                                  => StatusOf(fc', c) = StatusOf(fc, c)
       /\ events' # events => \E t \in Tokens : up[t].pc = "stored"
                                                /\ up'[t].pc = "post"]_vars

\* An uploader ends after its upload succeeded and a later write changed
\* the token: the event is out, the c_tag is the server's, and the status
\* stays Dirty with the newer token.
C17_Witness ==
    /\ lastOp.kind = "reconcile" /\ lastOp.seq = 1
    /\ lastOp.result = "Dirty" /\ lastOp.token = 2
    /\ fc[lastOp.fc].alive /\ fc[lastOp.fc].status = "Dirty"
    /\ fc[lastOp.fc].mtime = 2
    /\ Len(events) = 1 /\ events[1].c_tag = fc[lastOp.fc].c_tag

\* C18, as stated: unless the remote keeps delivering bytes (pos advances
\* again and again), download_thread terminates, after at most max_retry
\* retries of a request.
C18_ProducerTerminates ==
    /\ [](dl.tries <= MaxRetry + 1)
    /\ ([]<><<dl'.pos # dl.pos>>_vars) \/ <>SenderClosed

\* A read has just returned bytes from a cache that is still Downloading.
ReadWhileDownloading ==
    /\ lastOp.kind = "read" /\ lastOp.result = "ok" /\ lastOp.data # <<>>
    /\ fc[lastOp.fc].alive /\ fc[lastOp.fc].status = "Downloading"

\* C19: available_size never decreases and never exceeds file_size, the
\* writer task has written exactly the first available_size bytes of the
\* download, and a read that returns bytes while the cache is Downloading
\* ends within them and returns them.
C19_AvailableSizeMonotone ==
    /\ [](\A c \in AliveCaches :
             /\ 0 <= fc[c].avail /\ fc[c].avail <= fc[c].file_size
             /\ fc[c].avail <= Len(fc[c].file)
             /\ fc[c].lw = NoWrite =>
                   SubSeq(fc[c].file, 1, fc[c].avail)
                       = SubSeq(fc[c].src, 1, fc[c].avail))
    /\ [](ReadWhileDownloading =>
             /\ lastOp.offset + Len(lastOp.data) <= fc[lastOp.fc].avail
             /\ lastOp.data = SubSeq(fc[lastOp.fc].src, lastOp.offset + 1,
                                     lastOp.offset + Len(lastOp.data)))
    /\ [][\A c \in CacheIds :
             fc[c].alive /\ fc'[c].alive => fc[c].avail <= fc'[c].avail]_vars

\* A read of the first byte returns while the second is still to come.
C19_Witness ==
    /\ ReadWhileDownloading
    /\ lastOp.offset = 0 /\ lastOp.data = <<1>>
    /\ fc[lastOp.fc].avail = 1 /\ fc[lastOp.fc].file_size = 2
    /\ fc[lastOp.fc].w = "run"

\* The download of the cache is complete: the writer task has seen every
\* byte of the file (none, when the file is empty).
DownloadComplete(c) ==
    fc[c].alive /\ ~fc[c].inv /\ fc[c].avail = Len(fc[c].src)

\* C20, as stated: a cache whose download is complete and which is not
\* invalidated becomes Available (or is dropped, or invalidated); no write
\* goes on with the status Downloading, where it panics; and an Available
\* cache has all file_size bytes of its download on file.
C20_AdmittedCacheBecomesAvailable ==
    /\ DownloadComplete(1) ~>
          (~fc[1].alive \/ fc[1].inv \/ fc[1].status \in {"Available", "Dirty"})
    /\ [](lastOp.kind = "write" /\ ~lastOp.late => lastOp.result # "panic")
    /\ [](\A c \in AliveCaches :
             fc[c].status = "Available" => fc[c].avail = Len(fc[c].src))

\* An open has just returned after fetch_meta, for an admissible item that
\* a concurrent open had put into the LRU meanwhile.
OpenLostRace ==
    /\ lastOp.kind = "open" /\ lastOp.after_meta /\ lastOp.result # "error"
    /\ enable /\ lastOp.in_lru /\ lastOp.pre_size <= MaxCachedFileSize

\* The caches of item i that the open handles refer to.
HandleCaches(i) ==
    {hs[h] : h \in {x \in Handles : hs[x] > 0 /\ fc[hs[x]].item = i}}

\* C21: an open that finds, after fetch_meta, that a concurrent open has
\* admitted the item returns a handle on that FileCache: it creates no
\* cache (no backing file, no download) and leaves the counter alone; the
\* LRU never holds two entries of one item, and an open admits only an item
\* the LRU does not hold.
C21_ConcurrentOpensShareCache ==
    /\ \A j, k \in 1..Len(lru) : lru[j].key = lru[k].key => j = k
    /\ lastOp.kind = "open" /\ lastOp.result = "admitted" => ~lastOp.in_lru
    /\ OpenLostRace =>
          /\ lastOp.result = "cached"
          /\ LruHas(lru, lastOp.item)
          /\ lastOp.fc = LruEntry(lru, lastOp.item).fc
          /\ lastOp.fc \in lastOp.pre_alive
          /\ \E h \in Handles : NewHandles = {h} /\ hs[h] = lastOp.fc
          /\ AliveCaches = lastOp.pre_alive
          /\ total_size = lastOp.pre_total

\* Two opens of the item overlapped: both handles are on the one cache,
\* whose size is counted once.
C21_Witness ==
    /\ OpenLostRace
    /\ UsedHandles = Handles /\ Cardinality(Handles) = 2
    /\ Cardinality(HandleCaches(lastOp.item)) = 1
    /\ Cardinality(AliveCaches) = 1
    /\ total_size = lastOp.pre_size /\ total_size = 2

\* C22, as stated: the assertion of the writer task never fails, i.e. no
\* writer task reaches pos = file_size on a cache whose status is not
\* Downloading.
C22_WriterAssertionHolds ==
    \A c \in CacheIds : fc[c].alive => fc[c].w # "panic"

\* Cache c was written locally, is Available, and its item was changed at
\* the remote by uploads only.
Synchronized(c) ==
    /\ fc[c].alive /\ fc[c].status = "Available" /\ fc[c].lw.seq # 0
    /\ ~remote[fc[c].item].foreign

\* C23, as stated: an Available cache that was written locally, and whose
\* item nobody else changed, has on file the content last stored at the
\* remote.
C23_AvailableMeansUploaded ==
    \A c \in CacheIds :
        Synchronized(c) => remote[fc[c].item].content = fc[c].file

\* Cache c of item i holds a write whose uploader still sleeps, no handle
\* is open on it and it was evicted from the LRU: only the uploader holds
\* it, and sync_items cannot invalidate it any more.
Orphaned(c, i) ==
    /\ Evicted(c) /\ fc[c].item = i
    /\ fc[c].status = "Dirty" /\ up[fc[c].mtime].pc = "sleep"
    /\ fc[c].lw.data = <<8>> /\ fc[c].lw.offset = 0
    /\ \A h \in Handles : hs[h] # c

\* An upload of item i has completed and the remote holds the written byte.
UploadedWrite(i) ==
    /\ \E k \in 1..Len(events) : events[k].item = i
    /\ remote[i].content # <<>> /\ remote[i].content[1] = 8

\* C24: a cache that only its sleeping uploader holds stays alive until
\* that uploader has ended, and the write is uploaded: an upload of the item
\* completes and the remote holds the written bytes.
C24_OrphanedWriteIsUploaded ==
    /\ [](\A t \in Tokens : up[t].pc # "none" => fc[up[t].fc].alive)
    /\ \A c \in {1, 2}, i \in {1, 2} : Orphaned(c, i) ~> UploadedWrite(i)

\* The handle is closed and the other item has pushed the cache out of the
\* LRU while the uploader of its write still sleeps.
C24_Witness ==
    /\ Orphaned(1, 1) /\ Len(lru) = 1 /\ fc[lru[1].fc].item = 2
    /\ total_size = 2

\* The FileCaches of item i that are alive and not Invalidated.
ValidCaches(i) ==
    {c \in AliveCaches : fc[c].item = i /\ fc[c].status # "Invalidated"}

\* C25, its first half: an item has at most one FileCache that is alive and
\* not Invalidated.
C25_OneValidCachePerItem ==
    \A i \in Items : Cardinality(ValidCaches(i)) <= 1

\* C25: at every moment an item has at most one alive FileCache that is not
\* Invalidated, so two open handles of an item are never over two different
\* ones.  Stated for the caches that sync_items is not about to invalidate,
\* so that the moment between its two loops does not count.
C25_TwinsUnderHandles ==
    \A i \in Items :
        ~(\E c, d \in ValidCaches(i) :
            /\ c # d /\ sync.outdated = <<>>
            /\ ~fc[c].inv /\ ~fc[d].inv
            /\ \E h, g \in Handles : hs[h] = c /\ hs[g] = d)

\* The c_tag of the snapshot that the LRU holds for inode i (0: none).  The
\* versions of a remote directory are numbered upwards, so a snapshot of a
\* smaller c_tag comes from a response that the remote produced earlier.
StoredTag(l, i) == IF LruHas(l, i) THEN LruEntry(l, i).snap.c_tag ELSE 0

\* C26: among concurrent opens of an inode the snapshot in the LRU never
\* regresses: no step replaces the stored snapshot by one of a response
\* that was produced earlier.
C26_SnapshotNeverRegresses ==
    [][\A i \in Inodes :
          (LruHas(dirLru, i) /\ LruHas(dirLru', i))
              => StoredTag(dirLru', i) >= StoredTag(dirLru, i)]_vars

====
